---- MODULE Spec2Model ----
(***************************************************************************)
(* QKD protocol simulation engine (BB84 / E91 / B92) of qkdxplore.         *)
(*                                                                         *)
(* The simulators draw every random value from numpy's process-wide        *)
(* generator.  The generator is modelled as a seeded stream: its state is  *)
(* the pair (seed, number of draws made since seeding); the value of each  *)
(* draw is an unknown but fixed function of that state, chosen lazily and  *)
(* remembered in `memo` whenever a stream can be replayed.                 *)
(*                                                                         *)
(* Probabilities are exact rationals [n, d]; random() returns one of the   *)
(* levels 0/Levels .. (Levels-1)/Levels.  Python lists are sequences       *)
(* holding Python (0-based) index values; element i of a list is xs[i+1].  *)
(***************************************************************************)
EXTENDS Integers, Sequences, FiniteSets, TLC

VARIABLES
  rng,     \* numpy's global RandomState: [seed, pos]
  memo,    \* values already produced by each seeded stream
  replay,  \* TRUE when a stream may be read again by a later seeding
  pc,      \* position of each run
  req,     \* arguments of each run
  loc,     \* local variables of each run
  res      \* value returned (or exception raised) by each run

vars == <<rng, memo, replay, pc, req, loc, res>>

---------------------------------------------------------------------------
(* Bounds *)

MaxN == 2        \* largest signal / pair count
Levels == 2      \* resolution of random(): values k/Levels, k < Levels

Seeds == {0, 1}
OsEntropy == -2  \* identity of the stream numpy seeds itself with at import
NoSeed == -1     \* seed = None
SeedIds == Seeds \cup {OsEntropy}

---------------------------------------------------------------------------
(* Exact rationals *)

Q(n, d) == [n |-> n, d |-> d]
Zero == Q(0, 1)
Half == Q(1, 2)
One == Q(1, 1)
RLt(a, b) == a.n * b.d < b.n * a.d
RLe(a, b) == a.n * b.d <= b.n * a.d
RAdd(a, b) == Q(a.n * b.d + b.n * a.d, a.d * b.d)
RSub(a, b) == Q(a.n * b.d - b.n * a.d, a.d * b.d)
RMul(a, b) == Q(a.n * b.n, a.d * b.d)
RMin(a, b) == IF RLe(a, b) THEN a ELSE b
InUnit(a) == RLe(Zero, a) /\ RLe(a, One)

RECURSIVE Pow10(_)
Pow10(e) == IF e = 0 THEN 1 ELSE 10 * Pow10(e - 1)

Min(a, b) == IF a <= b THEN a ELSE b

\* ascending sequence of the elements of a finite set of integers
RECURSIVE Ascending(_)
Ascending(S) ==
  IF S = {} THEN <<>>
  ELSE LET m == CHOOSE x \in S : \A y \in S : x <= y
       IN <<m>> \o Ascending(S \ {m})

---------------------------------------------------------------------------
(* RandomSource: numpy.random global state *)

\* kinds of draw: randint(2) and choice of two; choice of three; random()
Range(kind) ==
  CASE kind = "int2" -> 0..1
    [] kind = "int3" -> 0..2
    [] kind = "float" -> 0..(Levels - 1)

\* a cell of memo maps the kinds already drawn at that position to their value
EmptyCell == [k \in {} |-> 0]
D(kind, v) == [k |-> kind, v |-> v]

\* values the draw made `off` draws from now can return
Avail(kind, off) ==
  LET cells == memo[rng.seed]
      idx == rng.pos + off + 1
  IN IF replay /\ idx <= Len(cells) /\ kind \in DOMAIN cells[idx]
     THEN {cells[idx][kind]}
     ELSE Range(kind)

\* sequences of n values the next array draw starting `off` draws from now
\* can return
AvailArray(kind, off, n) ==
  {xs \in [1..n -> Range(kind)] : \A k \in 1..n : xs[k] \in Avail(kind, off + k - 1)}

DrawsOf(kind, xs) == [k \in 1..Len(xs) |-> D(kind, xs[k])]

Recorded(cells, pos, draws) ==
  LET last == IF pos + Len(draws) > Len(cells) THEN pos + Len(draws) ELSE Len(cells)
  IN [idx \in 1..last |->
        LET old == IF idx <= Len(cells) THEN cells[idx] ELSE EmptyCell
        IN IF idx > pos /\ idx <= pos + Len(draws)
           THEN [k \in DOMAIN old \cup {draws[idx - pos].k} |->
                   IF k = draws[idx - pos].k THEN draws[idx - pos].v ELSE old[k]]
           ELSE old]

\* the generator after the given draws were made
Commit(draws) ==
  /\ rng' = [rng EXCEPT !.pos = @ + Len(draws)]
  /\ memo' = IF replay
             THEN [memo EXCEPT ![rng.seed] = Recorded(@, rng.pos, draws)]
             ELSE memo

\* the generator as `import numpy` leaves it: seeded from OS entropy
ImportedRng == [seed |-> OsEntropy, pos |-> 0]

\* fault variant of SeedRng: the stream position survives re-seeding
SeedRngKeepsPosition(value) == [seed |-> value, pos |-> rng.pos]

\* np.random.seed(value)
SeedRng(value) == [seed |-> value, pos |-> 0]

\* np.random.random() < p, for the level k returned by random()
RandLt(k, p) == k * p.d < Levels * p.n

---------------------------------------------------------------------------
(* StatisticsReporter pieces shared by the simulators *)

\* sum(a != b for a, b in zip(xs, ys))
Errors(xs, ys) == Cardinality({k \in 1..Min(Len(xs), Len(ys)) : xs[k] # ys[k]})

NoResult == [success |-> FALSE, status |-> 0]

---------------------------------------------------------------------------
(* BB84Simulator: POST /api/bb84/simulate *)

\* 1 - 10 ** (-(attenuation_coeff * fiber_length) / 10), for the inputs
\* whose exponent is a whole number
PhotonLoss(attenuation_coeff, fiber_length) ==
  LET e == (attenuation_coeff.n * fiber_length) \div (attenuation_coeff.d * 10)
  IN Q(Pow10(e) - 1, Pow10(e))

CombinedDamping(amplitude_damping, photon_loss_prob) ==
  RMin(RAdd(amplitude_damping, photon_loss_prob), One)

BB84Seed(p) ==
  /\ pc[p] = "start"
  /\ req[p].proto = "bb84"
  /\ rng' = SeedRng(req[p].seed)
  /\ pc' = [pc EXCEPT ![p] = "bb84_generate"]
  /\ UNCHANGED <<memo, replay, req, loc, res>>

\* the except branch of the handler: the 500 response
BB84Failure(error) == [success |-> FALSE, status |-> 500, error |-> error]

\* numpy refuses to build an array of negative size
NegativeSize == "ValueError: negative dimensions are not allowed"

BB84Generate(p) ==
  /\ pc[p] = "bb84_generate"
  /\ LET a == req[p]
         n == a.n_bits
         photon_loss_prob == PhotonLoss(a.attenuation_coeff, a.fiber_length)
     IN IF n < 0
        THEN /\ res' = [res EXCEPT ![p] = BB84Failure(NegativeSize)]
             /\ pc' = [pc EXCEPT ![p] = "done"]
             /\ UNCHANGED <<rng, memo, loc>>
        ELSE \E alice_bits \in AvailArray("int2", 0, n) :
             \E alice_bases \in AvailArray("int2", n, n) :
             \E bob_bases \in AvailArray("int2", 2 * n, n) :
               /\ Commit(DrawsOf("int2", alice_bits \o alice_bases \o bob_bases))
               /\ loc' = [loc EXCEPT ![p] =
                     [photon_loss_prob |-> photon_loss_prob,
                      combined_amplitude_damping |->
                         CombinedDamping(a.amplitude_damping, photon_loss_prob),
                      alice_bits |-> alice_bits,
                      alice_bases |-> alice_bases,
                      bob_bases |-> bob_bases,
                      bob_results |-> <<>>,
                      detected_indices |-> <<>>,
                      i |-> 0]]
               /\ pc' = [pc EXCEPT ![p] = "bb84_loop"]
               /\ UNCHANGED res
  /\ UNCHANGED <<replay, req>>

\* fault variant of BobMeasures: the two branches exchanged
BobMeasuresSwapped(same, bit_value, fresh) == IF same THEN fresh ELSE bit_value

\* Bob's result: the bit in the same basis, a fresh random bit otherwise
BobMeasures(same, bit_value, fresh) == IF same THEN bit_value ELSE fresh

\* fault variant of PhotonLost: the lost photon is recorded as a 0
PhotonLostAsZero(l) ==
  [l EXCEPT !.i = @ + 1, !.bob_results = Append(@, 0)]

\* `continue` of the photon-loss check: nothing is recorded
PhotonLost(l) == [l EXCEPT !.i = @ + 1]

\* fault variant of PhaseFlip: the basis is not consulted
PhaseFlipAnyBasis(alice_basis, u, phase_damping) == RandLt(u, phase_damping)

\* alice_bases[i] == 1 and np.random.random() < phase_damping
PhaseFlip(alice_basis, u, phase_damping) ==
  alice_basis = 1 /\ RandLt(u, phase_damping)

\* one iteration of `for i in range(n_bits)`
BB84Signal(p) ==
  /\ pc[p] = "bb84_loop"
  /\ loc[p].i < req[p].n_bits
  /\ LET l == loc[p]
         a == req[p]
         i == l.i
         diagonal == l.alice_bases[i + 1] = 1
         same == l.alice_bases[i + 1] = l.bob_bases[i + 1]
     IN \E u1 \in Avail("float", 0) :
          IF RandLt(u1, l.combined_amplitude_damping)
          THEN \* photon lost: continue
               /\ Commit(<<D("float", u1)>>)
               /\ loc' = [loc EXCEPT ![p] = PhotonLost(l)]
          ELSE \E u2 \in Avail("float", 1) :
               \E u3 \in (IF diagonal THEN Avail("float", 2) ELSE {0}) :
               \E u4 \in (IF same THEN {0}
                          ELSE Avail("int2", IF diagonal THEN 3 ELSE 2)) :
                 LET depolarized == IF RandLt(u2, a.depolarization)
                                    THEN 1 - l.alice_bits[i + 1]
                                    ELSE l.alice_bits[i + 1]
                     bit_value == IF PhaseFlip(l.alice_bases[i + 1], u3, a.phase_damping)
                                  THEN 1 - depolarized
                                  ELSE depolarized
                     draws == <<D("float", u1), D("float", u2)>>
                              \o (IF diagonal THEN <<D("float", u3)>> ELSE <<>>)
                              \o (IF same THEN <<>> ELSE <<D("int2", u4)>>)
                 IN /\ Commit(draws)
                    /\ loc' = [loc EXCEPT
                          ![p].i = i + 1,
                          ![p].detected_indices = Append(@, i),
                          ![p].bob_results = Append(@, BobMeasures(same, bit_value, u4))]
  /\ UNCHANGED <<replay, pc, req, res>>

\* fault variant of BB84Kept: the basis comparison is missing
BB84KeptUnfiltered(l) == Ascending(1..Len(l.detected_indices))

\* positions j of detected_indices whose signal has matching bases
BB84Kept(l) ==
  Ascending({j \in 1..Len(l.detected_indices) :
               l.alice_bases[l.detected_indices[j] + 1]
                 = l.bob_bases[l.detected_indices[j] + 1]})

BB84AliceKey(l) ==
  LET js == BB84Kept(l)
  IN [k \in 1..Len(js) |-> l.alice_bits[l.detected_indices[js[k]] + 1]]

\* fault variant of BB84BobKey: bases are compared at position j instead of
\* at signal detected_indices[j]
BB84BobKeyUncompacted(l) ==
  LET js == Ascending({j \in 1..Len(l.bob_results) : l.alice_bases[j] = l.bob_bases[j]})
  IN [k \in 1..Len(js) |-> l.bob_results[js[k]]]

BB84BobKey(l) ==
  LET js == BB84Kept(l)
  IN [k \in 1..Len(js) |-> l.bob_results[js[k]]]

BB84Qber(alice_key, bob_key) ==
  IF alice_key # <<>> /\ bob_key # <<>>
  THEN Q(Errors(alice_key, bob_key), Len(alice_key))
  ELSE Zero

BB84Response(a, l) ==
  LET alice_key == BB84AliceKey(l)
      bob_key == BB84BobKey(l)
  IN [success |-> TRUE,
      status |-> 200,
      data |-> [alice_bits |-> l.alice_bits,
                alice_bases |-> l.alice_bases,
                bob_bases |-> l.bob_bases,
                bob_results |-> l.bob_results,
                alice_key |-> alice_key,
                bob_key |-> bob_key,
                qber |-> BB84Qber(alice_key, bob_key),
                job_id |-> <<"sim", a.seed, a.n_bits>>,
                key_length |-> Len(alice_key),
                keys_match |-> alice_key = bob_key,
                photon_loss_rate |-> l.photon_loss_prob,
                detected_photons |-> Len(l.detected_indices)]]

BB84Finish(p) ==
  /\ pc[p] = "bb84_loop"
  /\ loc[p].i = req[p].n_bits
  /\ res' = [res EXCEPT ![p] = BB84Response(req[p], loc[p])]
  /\ pc' = [pc EXCEPT ![p] = "done"]
  /\ UNCHANGED <<rng, memo, replay, req, loc>>

\* <<depolarization, phase_damping, amplitude_damping, fiber_length>>
BB84Noise ==
  {<<Zero, Zero, Zero, 0>>, <<Half, Zero, Zero, 0>>, <<One, Zero, Zero, 0>>,
   <<Zero, Half, Zero, 0>>, <<Zero, One, Zero, 0>>, <<Zero, Zero, Half, 0>>,
   <<Zero, Zero, One, 0>>, <<Zero, Zero, Zero, 50>>, <<Half, Half, Half, 0>>,
   <<One, One, Half, 50>>}

BB84Request(n, seed, noise) ==
  [proto |-> "bb84", n_bits |-> n, seed |-> seed,
   depolarization |-> noise[1], phase_damping |-> noise[2],
   amplitude_damping |-> noise[3], fiber_length |-> noise[4],
   attenuation_coeff |-> Q(1, 5)]

BB84Requests == {BB84Request(n, 0, noise) : n \in 0..MaxN, noise \in BB84Noise}

---------------------------------------------------------------------------
(* E91Simulator: qiskit/e91_protocol.py *)

Returned(data) == [success |-> TRUE, data |-> data]
Raised(error) == [success |-> FALSE, error |-> error]

BellStates == {"psi_minus", "psi_plus", "phi_minus", "phi_plus"}

\* create_bell_state: the density matrix, named by its state; raises on an
\* unknown name
create_bell_state(state_type) ==
  IF state_type \in BellStates
  THEN [raised |-> FALSE, rho |-> [bell |-> state_type, white |-> Zero]]
  ELSE [raised |-> TRUE, error |-> "ValueError: Unknown state type"]

\* (1 - p) * rho + p * I / 4
apply_depolarizing_channel(rho, p) == [rho EXCEPT !.white = p]

\* fault variant of measurement_angles: 45 degrees before 90 degrees
measurement_angles_ascending(basis) == basis

\* measurement_angles, in units of pi/4
measurement_angles(basis) ==
  CASE basis = 0 -> 0
    [] basis = 1 -> 2
    [] basis = 2 -> 1

\* fault variant of SinSq: cos(x)**2, the anti-correlation probability
CosSq(quarter_turns) ==
  CASE quarter_turns % 4 = 0 -> One
    [] quarter_turns % 4 = 2 -> Zero
    [] OTHER -> Half

\* sin(x)**2 for x a multiple of pi/4 (the float result for an odd multiple
\* is 0.4999999999999999; no level of random() separates it from 1/2)
SinSq(quarter_turns) ==
  CASE quarter_turns % 4 = 0 -> Zero
    [] quarter_turns % 4 = 2 -> One
    [] OTHER -> Half

\* fault variant of PSame: the correlation follows the Bell state
PSameOfBellState(rho, alice_basis, bob_basis) ==
  IF rho.bell = "psi_minus"
  THEN SinSq(measurement_angles(alice_basis) - measurement_angles(bob_basis))
  ELSE CosSq(measurement_angles(alice_basis) - measurement_angles(bob_basis))

\* p_same of measure_in_basis; rho is not read
PSame(rho, alice_basis, bob_basis) ==
  SinSq(measurement_angles(alice_basis) - measurement_angles(bob_basis))

E91Seed(p) ==
  /\ pc[p] = "start"
  /\ req[p].proto = "e91"
  /\ rng' = IF req[p].seed # NoSeed THEN SeedRng(req[p].seed) ELSE rng
  /\ pc' = [pc EXCEPT ![p] = "e91_generate"]
  /\ UNCHANGED <<memo, replay, req, loc, res>>

E91Generate(p) ==
  /\ pc[p] = "e91_generate"
  /\ LET a == req[p]
         n == a.n_pairs
         rho_0 == create_bell_state(a.bell_state)
     IN IF rho_0.raised \/ n < 0
        THEN /\ res' = [res EXCEPT ![p] =
                   Raised(IF rho_0.raised THEN rho_0.error ELSE NegativeSize)]
             /\ pc' = [pc EXCEPT ![p] = "done"]
             /\ UNCHANGED <<rng, memo, loc>>
        ELSE \E alice_bases \in AvailArray("int3", 0, n) :
             \E bob_bases \in AvailArray("int3", n, n) :
               /\ Commit(DrawsOf("int3", alice_bases \o bob_bases))
               /\ loc' = [loc EXCEPT ![p] =
                     [rho_noisy |-> apply_depolarizing_channel(rho_0.rho, a.depolarization),
                      alice_bases |-> alice_bases,
                      bob_bases |-> bob_bases,
                      alice_outcomes |-> <<>>,
                      bob_outcomes |-> <<>>,
                      i |-> 0]]
               /\ pc' = [pc EXCEPT ![p] = "e91_loop"]
               /\ UNCHANGED res
  /\ UNCHANGED <<replay, req>>

\* fault variant of InterceptedBits: Bob's bit is tied to Alice's
InterceptedBitsAntiCorrelated(first, second) == [alice |-> first, bob |-> 1 - first]

\* the intercept-resend branch: two calls of np.random.randint(2)
InterceptedBits(first, second) == [alice |-> first, bob |-> second]

\* one iteration of `for i in range(n_pairs)`
E91Pair(p) ==
  /\ pc[p] = "e91_loop"
  /\ loc[p].i < req[p].n_pairs
  /\ LET l == loc[p]
         a == req[p]
         i == l.i
         p_same == PSame(l.rho_noisy, l.alice_bases[i + 1], l.bob_bases[i + 1])
     IN \E u1 \in Avail("float", 0) :
        \E u2 \in Avail("int2", 1) :
        LET eve == RandLt(u1, a.eavesdropping_rate)
        IN \E u3 \in Avail(IF eve THEN "int2" ELSE "float", 2) :
           \E u4 \in Avail("float", 3) :
           \E u5 \in Avail("float", 4) :
             LET alice_bit == IF eve THEN InterceptedBits(u2, u3).alice ELSE u2
                 bob_bit == IF eve THEN InterceptedBits(u2, u3).bob
                            ELSE IF RandLt(u3, p_same) THEN alice_bit
                            ELSE 1 - alice_bit
                 alice_dark == IF RandLt(u4, a.dark_count_rate)
                               THEN 1 - alice_bit ELSE alice_bit
                 bob_dark == IF RandLt(u5, a.dark_count_rate)
                             THEN 1 - bob_bit ELSE bob_bit
             IN /\ Commit(<<D("float", u1), D("int2", u2),
                            D(IF eve THEN "int2" ELSE "float", u3),
                            D("float", u4), D("float", u5)>>)
                /\ loc' = [loc EXCEPT
                      ![p].i = i + 1,
                      ![p].alice_outcomes = Append(@, alice_dark),
                      ![p].bob_outcomes = Append(@, bob_dark)]
  /\ UNCHANGED <<replay, pc, req, res>>

\* Python indices of the key-generation set and of the Bell-test set
KeyGenIndices(l, n) ==
  Ascending({i \in 0..(n - 1) : l.alice_bases[i + 1] = l.bob_bases[i + 1]})
\* fault variant of BellTestIndices: `<` instead of `!=`
BellTestIndicesBelow(l, n) ==
  Ascending({i \in 0..(n - 1) : l.alice_bases[i + 1] < l.bob_bases[i + 1]})

BellTestIndices(l, n) ==
  Ascending({i \in 0..(n - 1) : ~(l.alice_bases[i + 1] = l.bob_bases[i + 1])})

Pick(xs, indices) == [k \in 1..Len(indices) |-> xs[indices[k] + 1]]

Sign(bit) == IF bit = 0 THEN 1 ELSE -1

RECURSIVE SumSeq(_)
SumSeq(xs) == IF xs = <<>> THEN 0 ELSE Head(xs) + SumSeq(Tail(xs))

BasisPairs == (0..2) \X (0..2)

\* calculate_chsh_s_value: the correlations dict
Correlations(alice_outcomes, bob_outcomes, alice_bases, bob_bases) ==
  [key \in BasisPairs |->
     LET ks == Ascending({k \in 1..Len(alice_outcomes) :
                            <<alice_bases[k], bob_bases[k]>> = key})
         values == [j \in 1..Len(ks) |->
                      Sign(alice_outcomes[ks[j]]) * Sign(bob_outcomes[ks[j]])]
     IN IF values # <<>> THEN Q(SumSeq(values), Len(values)) ELSE Zero]

\* S = E(0,45) - E(0,90) + E(90,45) + E(90,0)
ChshS(correlations) ==
  RAdd(RAdd(RSub(correlations[<<0, 2>>], correlations[<<0, 1>>]),
            correlations[<<1, 2>>]),
       correlations[<<1, 0>>])

RAbs(a) == IF a.n < 0 THEN Q(-a.n, a.d) ELSE a

\* fault variant of BellViolated: `>=` instead of `>`
BellViolatedInclusive(chsh_s_value) == RLe(Q(2, 1), RAbs(chsh_s_value))

\* abs(chsh_s_value) > 2.0
BellViolated(chsh_s_value) == RLt(Q(2, 1), RAbs(chsh_s_value))

\* fault variant of E91Qber: the comparison is made with Bob's uncorrected
\* bits
E91QberUncorrected(alice_sifted_key, bob_corrected_key) ==
  IF Len(alice_sifted_key) > 0
  THEN Q(Errors(alice_sifted_key, [k \in 1..Len(bob_corrected_key) |-> 1 - bob_corrected_key[k]]),
         Len(alice_sifted_key))
  ELSE Zero

E91Qber(alice_sifted_key, bob_corrected_key) ==
  IF Len(alice_sifted_key) > 0
  THEN Q(Errors(alice_sifted_key, bob_corrected_key), Len(alice_sifted_key))
  ELSE Zero

E91Result(a, l) ==
  LET n == a.n_pairs
      bell_test_indices == BellTestIndices(l, n)
      key_gen_indices == KeyGenIndices(l, n)
      correlations == Correlations(Pick(l.alice_outcomes, bell_test_indices),
                                   Pick(l.bob_outcomes, bell_test_indices),
                                   Pick(l.alice_bases, bell_test_indices),
                                   Pick(l.bob_bases, bell_test_indices))
      chsh_s_value == ChshS(correlations)
      alice_sifted_key == Pick(l.alice_outcomes, key_gen_indices)
      bob_sifted_key == Pick(l.bob_outcomes, key_gen_indices)
      bob_corrected_key == [k \in 1..Len(bob_sifted_key) |-> 1 - bob_sifted_key[k]]
  IN [n_pairs |-> n,
      bell_state |-> a.bell_state,
      alice_bases |-> l.alice_bases,
      bob_bases |-> l.bob_bases,
      alice_outcomes |-> l.alice_outcomes,
      bob_outcomes |-> l.bob_outcomes,
      bell_test_indices |-> bell_test_indices,
      key_gen_indices |-> key_gen_indices,
      bell_test_count |-> Len(bell_test_indices),
      key_gen_count |-> Len(key_gen_indices),
      alice_sifted_key |-> alice_sifted_key,
      bob_sifted_key |-> bob_sifted_key,
      bob_corrected_key |-> bob_corrected_key,
      qber |-> E91Qber(alice_sifted_key, bob_corrected_key),
      chsh_s_value |-> chsh_s_value,
      bell_violated |-> BellViolated(chsh_s_value),
      correlations |-> correlations,
      \* expected_s_value is this coefficient times 2 * sqrt(2)
      expected_s_coeff |-> RSub(RSub(One, a.depolarization), a.eavesdropping_rate),
      expected_qber |-> RAdd(RMul(RAdd(a.depolarization, a.eavesdropping_rate), Half),
                             a.dark_count_rate),
      depolarization |-> a.depolarization,
      eavesdropping_rate |-> a.eavesdropping_rate,
      dark_count_rate |-> a.dark_count_rate]

E91Finish(p) ==
  /\ pc[p] = "e91_loop"
  /\ loc[p].i = req[p].n_pairs
  /\ res' = [res EXCEPT ![p] = Returned(E91Result(req[p], loc[p]))]
  /\ pc' = [pc EXCEPT ![p] = "done"]
  /\ UNCHANGED <<rng, memo, replay, req, loc>>

\* <<depolarization, eavesdropping_rate, dark_count_rate>>
E91Noise ==
  {<<Zero, Zero, Zero>>, <<Half, Zero, Zero>>, <<One, Zero, Zero>>,
   <<Zero, Half, Zero>>, <<Zero, One, Zero>>, <<Zero, Zero, Half>>,
   <<Zero, Zero, One>>, <<Half, Half, Half>>, <<One, One, One>>}

E91Request(n, seed, noise, bell_state) ==
  [proto |-> "e91", n_pairs |-> n, seed |-> seed,
   depolarization |-> noise[1], eavesdropping_rate |-> noise[2],
   dark_count_rate |-> noise[3], bell_state |-> bell_state]

E91Requests ==
  {E91Request(n, 0, noise, "psi_minus") : n \in 0..MaxN, noise \in E91Noise}

---------------------------------------------------------------------------
(* B92Simulator: qiskit/b92_protocol.py *)

\* State vectors are named: "0" = |0>, "+" = |+>, "1" = |1>, "-" = |->.
\* |<x|y>|^2 for the four vectors
Overlap(x, y) ==
  IF x = y THEN One
  ELSE IF {x, y} = {"0", "1"} \/ {x, y} = {"+", "-"} THEN Zero
  ELSE Half

\* <state| M_0 |state> with M_0 = I - |+><+|, and <state| M_1 |state> with
\* M_1 = I - |0><0|, in exact arithmetic
\* fault variant of BornProb0: M_0 built from |0><0| instead of |+><+|
BornProb0OfZeroProjector(state) == RSub(One, Overlap("0", state))

BornProb0(state) == RSub(One, Overlap("+", state))
BornProb1(state) == RSub(One, Overlap("0", state))

\* fault variant of B92Probabilities: the dark-count rate is added to both
\* conclusive probabilities whatever the two draws are
B92ProbabilitiesUnconditional(state, dark_count_rate, v0, v1) ==
  LET born_0 == BornProb0(state)
      born_1 == BornProb1(state)
      prob_inconclusive == RSub(RSub(One, born_0), born_1)
      prob_0 == RAdd(born_0, dark_count_rate)
      prob_1 == RAdd(born_1, dark_count_rate)
      total == RAdd(RAdd(prob_0, prob_1), prob_inconclusive)
  IN [prob_0 |-> Q(prob_0.n * total.d, prob_0.d * total.n),
      prob_1 |-> Q(prob_1.n * total.d, prob_1.d * total.n),
      prob_inconclusive |-> Q(prob_inconclusive.n * total.d,
                              prob_inconclusive.d * total.n)]

\* measure_b92 up to the normalisation: the probabilities of the three
\* outcomes, given the two values random() returns for the dark counts
B92Probabilities(state, dark_count_rate, v0, v1) ==
  LET born_0 == BornProb0(state)
      born_1 == BornProb1(state)
      prob_inconclusive == RSub(RSub(One, born_0), born_1)
      dark_count_0 == RandLt(v0, dark_count_rate)
      dark_count_1 == RandLt(v1, dark_count_rate)
      prob_0 == IF dark_count_0 THEN RAdd(born_0, dark_count_rate) ELSE born_0
      prob_1 == IF dark_count_1 THEN RAdd(born_1, dark_count_rate) ELSE born_1
      total == RAdd(RAdd(prob_0, prob_1), prob_inconclusive)
  IN [prob_0 |-> Q(prob_0.n * total.d, prob_0.d * total.n),
      prob_1 |-> Q(prob_1.n * total.d, prob_1.d * total.n),
      prob_inconclusive |-> Q(prob_inconclusive.n * total.d,
                              prob_inconclusive.d * total.n)]

\* measure_b92, given the three values its calls of random() return
measure_b92(state, dark_count_rate, v0, v1, r) ==
  LET probs == B92Probabilities(state, dark_count_rate, v0, v1)
      \* r < prob_0 and r < prob_0 + prob_1
      below_0 == RandLt(r, probs.prob_0)
      below_1 == RandLt(r, RAdd(probs.prob_0, probs.prob_1))
  IN IF below_0 THEN [bit |-> 0, conclusive |-> TRUE]
     ELSE IF below_1 THEN [bit |-> 1, conclusive |-> TRUE]
     ELSE [bit |-> -1, conclusive |-> FALSE]

Orthogonal(alice_state) == IF alice_state = "0" THEN "1" ELSE "-"

\* the loop variable prepared_state before the first iteration
Unbound == "unbound"

\* fault variant of DepolarizedState: the flip is unconditional
DepolarizedStateFlipped(sent, arrived, u) == Orthogonal(sent)

\* the body of `if np.random.random() < depolarization`: a second draw
\* below 0.5 replaces the state by the orthogonal counterpart of the state
\* Alice prepared; otherwise the state stays as it arrived
DepolarizedState(sent, arrived, u) ==
  IF RandLt(u, Half) THEN Orthogonal(sent) ELSE arrived

B92Seed(p) ==
  /\ pc[p] = "start"
  /\ req[p].proto = "b92"
  /\ rng' = IF req[p].seed # NoSeed THEN SeedRng(req[p].seed) ELSE rng
  /\ pc' = [pc EXCEPT ![p] = "b92_generate"]
  /\ UNCHANGED <<memo, replay, req, loc, res>>

B92Generate(p) ==
  /\ pc[p] = "b92_generate"
  /\ IF req[p].n_signals < 0
     THEN /\ res' = [res EXCEPT ![p] = Raised(NegativeSize)]
          /\ pc' = [pc EXCEPT ![p] = "done"]
          /\ UNCHANGED <<rng, memo, loc>>
     ELSE \E alice_bits \in AvailArray("int2", 0, req[p].n_signals) :
          /\ Commit(DrawsOf("int2", alice_bits))
          /\ loc' = [loc EXCEPT ![p] =
                [alice_bits |-> alice_bits,
                 alice_states |-> [k \in 1..Len(alice_bits) |->
                                     IF alice_bits[k] = 0 THEN "0" ELSE "+"],
                 prepared_state |-> Unbound,
                 bob_raw_results |-> <<>>,
                 conclusive_flags |-> <<>>,
                 i |-> 0]]
          /\ pc' = [pc EXCEPT ![p] = "b92_loop"]
          /\ UNCHANGED res
  /\ UNCHANGED <<replay, req>>

\* one iteration of `for i in range(n_signals)`
B92Signal(p) ==
  /\ pc[p] = "b92_loop"
  /\ loc[p].i < req[p].n_signals
  /\ LET l == loc[p]
         a == req[p]
         i == l.i
         sent == l.alice_states[i + 1]
     IN \E u1 \in Avail("float", 0) :
          IF RandLt(u1, a.channel_loss)
          THEN \* photon did not arrive: continue
               /\ Commit(<<D("float", u1)>>)
               /\ loc' = [loc EXCEPT
                     ![p].i = i + 1,
                     ![p].prepared_state = sent,
                     ![p].bob_raw_results = Append(@, -1),
                     ![p].conclusive_flags = Append(@, FALSE)]
          ELSE \E u2 \in Avail("float", 1) :
               LET eve == RandLt(u2, a.eavesdropping_rate)
                   o1 == IF eve THEN 4 ELSE 2
               IN \E e1 \in (IF eve THEN Avail("int2", 2) ELSE {0}) :
                  \E e2 \in (IF eve THEN Avail("float", 3) ELSE {0}) :
                  \E u3 \in Avail("float", o1) :
                  LET noisy == RandLt(u3, a.depolarization)
                      o2 == IF noisy THEN o1 + 2 ELSE o1 + 1
                  IN \E u4 \in (IF noisy THEN Avail("float", o1 + 1) ELSE {0}) :
                     \E v0 \in Avail("float", o2) :
                     \E v1 \in Avail("float", o2 + 1) :
                     \E r \in Avail("float", o2 + 2) :
                       LET resent == IF ~eve THEN sent
                                     ELSE IF e1 = 0
                                     THEN (IF RandLt(e2, Half) THEN "0" ELSE "1")
                                     ELSE (IF RandLt(e2, Half) THEN "+" ELSE "-")
                           prepared_state == IF noisy
                                             THEN DepolarizedState(sent, resent, u4)
                                             ELSE resent
                           m == measure_b92(prepared_state, a.dark_count_rate, v0, v1, r)
                           draws == <<D("float", u1), D("float", u2)>>
                                    \o (IF eve THEN <<D("int2", e1), D("float", e2)>> ELSE <<>>)
                                    \o <<D("float", u3)>>
                                    \o (IF noisy THEN <<D("float", u4)>> ELSE <<>>)
                                    \o <<D("float", v0), D("float", v1), D("float", r)>>
                       IN /\ Commit(draws)
                          /\ loc' = [loc EXCEPT
                                ![p].i = i + 1,
                                ![p].prepared_state = prepared_state,
                                ![p].bob_raw_results = Append(@, m.bit),
                                ![p].conclusive_flags = Append(@, m.conclusive)]
  /\ UNCHANGED <<replay, pc, req, res>>

ConclusiveIndices(l, n) == Ascending({i \in 0..(n - 1) : l.conclusive_flags[i + 1]})
\* fault variant of InconclusiveIndices: the scan starts at index 1
InconclusiveIndicesFromOne(l, n) == Ascending({i \in 1..(n - 1) : ~l.conclusive_flags[i + 1]})

InconclusiveIndices(l, n) == Ascending({i \in 0..(n - 1) : ~l.conclusive_flags[i + 1]})

\* fault variant of B92Qber: the percentage instead of the fraction
B92QberPercent(sifted_key_alice, sifted_key_bob) ==
  IF Len(sifted_key_alice) > 0
  THEN Q(100 * Errors(sifted_key_alice, sifted_key_bob), Len(sifted_key_alice))
  ELSE Zero

B92Qber(sifted_key_alice, sifted_key_bob) ==
  IF Len(sifted_key_alice) > 0
  THEN Q(Errors(sifted_key_alice, sifted_key_bob), Len(sifted_key_alice))
  ELSE Zero

\* len(conclusive_indices) / n_signals
B92KeyRate(conclusive_count, n_signals) == Q(conclusive_count, n_signals)

B92Result(a, l) ==
  LET n == a.n_signals
      conclusive_indices == ConclusiveIndices(l, n)
      inconclusive_indices == InconclusiveIndices(l, n)
      sifted_key_alice == Pick(l.alice_bits, conclusive_indices)
      sifted_key_bob == Pick(l.bob_raw_results, conclusive_indices)
  IN [n_signals |-> n,
      alice_bits |-> l.alice_bits,
      alice_states |-> l.alice_states,
      bob_measurements |-> [k \in 1..Len(l.bob_raw_results) |->
                              <<l.bob_raw_results[k], l.conclusive_flags[k]>>],
      bob_raw_results |-> l.bob_raw_results,
      conclusive_indices |-> conclusive_indices,
      inconclusive_indices |-> inconclusive_indices,
      conclusive_count |-> Len(conclusive_indices),
      inconclusive_count |-> Len(inconclusive_indices),
      sifted_key_alice |-> sifted_key_alice,
      sifted_key_bob |-> sifted_key_bob,
      qber |-> B92Qber(sifted_key_alice, sifted_key_bob),
      key_rate |-> B92KeyRate(Len(conclusive_indices), n),
      expected_qber |-> RAdd(RMul(RAdd(a.depolarization, a.eavesdropping_rate), Half),
                             a.dark_count_rate),
      expected_key_rate |-> RMul(RMul(Q(1, 4), RSub(One, a.channel_loss)),
                                 RSub(RSub(One, a.depolarization), a.eavesdropping_rate)),
      channel_loss |-> a.channel_loss,
      depolarization |-> a.depolarization,
      eavesdropping_rate |-> a.eavesdropping_rate,
      dark_count_rate |-> a.dark_count_rate]

\* the statements after the loop; the key-rate division raises when
\* n_signals = 0
B92Finish(p) ==
  /\ pc[p] = "b92_loop"
  /\ loc[p].i = req[p].n_signals
  /\ res' = [res EXCEPT ![p] =
        IF req[p].n_signals = 0
        THEN Raised("ZeroDivisionError")
        ELSE Returned(B92Result(req[p], loc[p]))]
  /\ pc' = [pc EXCEPT ![p] = "done"]
  /\ UNCHANGED <<rng, memo, replay, req, loc>>

\* <<channel_loss, depolarization, eavesdropping_rate, dark_count_rate>>
B92Noise ==
  {<<Zero, Zero, Zero, Zero>>, <<Half, Zero, Zero, Zero>>, <<One, Zero, Zero, Zero>>,
   <<Zero, Half, Zero, Zero>>, <<Zero, One, Zero, Zero>>, <<Zero, Zero, Half, Zero>>,
   <<Zero, Zero, One, Zero>>, <<Zero, Zero, Zero, Half>>, <<Zero, Zero, Zero, One>>,
   <<Half, Half, Half, Half>>, <<One, One, One, One>>}

B92Request(n, seed, noise) ==
  [proto |-> "b92", n_signals |-> n, seed |-> seed,
   channel_loss |-> noise[1], depolarization |-> noise[2],
   eavesdropping_rate |-> noise[3], dark_count_rate |-> noise[4]]

B92Requests == {B92Request(n, 0, noise) : n \in 0..MaxN, noise \in B92Noise}

---------------------------------------------------------------------------
(* A single request served by a fresh process *)

Idle == [i |-> 0]

\* the caller issues the next call once the first one has returned
Release(p) ==
  /\ pc[p] = "waiting"
  /\ pc[1] = "done"
  /\ pc' = [pc EXCEPT ![p] = "start"]
  /\ UNCHANGED <<rng, memo, replay, req, loc, res>>

Init ==
  /\ rng = ImportedRng
  /\ memo = [s \in SeedIds |-> <<>>]
  /\ replay = FALSE
  /\ pc = [p \in {1} |-> "start"]
  /\ req \in [{1} -> BB84Requests \cup E91Requests \cup B92Requests]
  /\ loc = [p \in {1} |-> Idle]
  /\ res = [p \in {1} |-> NoResult]

Next ==
  \E p \in DOMAIN pc :
    \/ BB84Seed(p)
    \/ BB84Generate(p)
    \/ BB84Signal(p)
    \/ BB84Finish(p)
    \/ E91Seed(p)
    \/ E91Generate(p)
    \/ E91Pair(p)
    \/ E91Finish(p)
    \/ B92Seed(p)
    \/ B92Generate(p)
    \/ B92Signal(p)
    \/ B92Finish(p)

Spec == Init /\ [][Next]_vars

---------------------------------------------------------------------------
(* The same request issued twice in one process, one call after the other *)

SeqN == 1      \* signal / pair count of the calls that are repeated

SeqRequests ==
  {BB84Request(n, seed, noise) :
     n \in 0..SeqN, seed \in Seeds,
     noise \in {<<Zero, Zero, Zero, 0>>, <<Half, Half, Half, 0>>}}
  \cup
  {E91Request(n, seed, noise, "psi_minus") :
     n \in 0..SeqN, seed \in Seeds,
     noise \in {<<Zero, Zero, Zero>>, <<Half, Half, Half>>}}
  \cup
  {B92Request(n, seed, noise) :
     n \in 0..SeqN, seed \in Seeds,
     noise \in {<<Zero, Zero, Zero, Zero>>, <<Half, Zero, Half, Half>>}}

InitSeq ==
  /\ rng = ImportedRng
  /\ memo = [s \in SeedIds |-> <<>>]
  /\ replay = TRUE
  /\ pc = [p \in {1, 2} |-> IF p = 1 THEN "start" ELSE "waiting"]
  /\ \E r \in SeqRequests : req = [p \in {1, 2} |-> r]
  /\ loc = [p \in {1, 2} |-> Idle]
  /\ res = [p \in {1, 2} |-> NoResult]

NextSeq ==
  \E p \in DOMAIN pc :
    \/ Release(p)
    \/ BB84Seed(p)
    \/ BB84Generate(p)
    \/ BB84Signal(p)
    \/ BB84Finish(p)
    \/ E91Seed(p)
    \/ E91Generate(p)
    \/ E91Pair(p)
    \/ E91Finish(p)
    \/ B92Seed(p)
    \/ B92Generate(p)
    \/ B92Signal(p)
    \/ B92Finish(p)

SpecSeq == InitSeq /\ [][NextSeq]_vars

---------------------------------------------------------------------------
(* Two requests handled in parallel: call 1 is call 2's request executed   *)
(* alone beforehand; calls 2 and 3 then run with their steps interleaved.  *)

ConcRequests == {BB84Request(1, seed, <<Zero, Zero, One, 0>>) : seed \in Seeds}

InitConc ==
  /\ rng = ImportedRng
  /\ memo = [s \in SeedIds |-> <<>>]
  /\ replay = TRUE
  /\ pc = [p \in {1, 2, 3} |-> IF p = 1 THEN "start" ELSE "waiting"]
  /\ \E r \in ConcRequests, other \in ConcRequests :
       req = [p \in {1, 2, 3} |-> IF p = 3 THEN other ELSE r]
  /\ loc = [p \in {1, 2, 3} |-> Idle]
  /\ res = [p \in {1, 2, 3} |-> NoResult]

NextConc ==
  \E p \in DOMAIN pc :
    \/ Release(p)
    \/ BB84Seed(p)
    \/ BB84Generate(p)
    \/ BB84Signal(p)
    \/ BB84Finish(p)

SpecConc == InitConc /\ [][NextConc]_vars

---------------------------------------------------------------------------
(* One noiseless E91 run long enough to populate every CHSH term *)

ChshTerms == {<<0, 2>>, <<0, 1>>, <<1, 2>>, <<1, 0>>}

InitBell ==
  /\ rng = ImportedRng
  /\ memo = [s \in SeedIds |-> <<>>]
  /\ replay = FALSE
  /\ pc = [p \in {1} |-> "start"]
  /\ req = [p \in {1} |->
              E91Request(Cardinality(ChshTerms), 0, <<Zero, Zero, Zero>>, "psi_minus")]
  /\ loc = [p \in {1} |-> Idle]
  /\ res = [p \in {1} |-> NoResult]

NextBell ==
  \E p \in DOMAIN pc :
    \/ E91Seed(p)
    \/ E91Generate(p)
    \/ E91Pair(p)
    \/ E91Finish(p)

SpecBell == InitBell /\ [][NextBell]_vars

---------------------------------------------------------------------------
(* A single request carrying an out-of-range argument: a negative count,   *)
(* a probability outside [0,1] or an unknown Bell state                    *)

OutOfRange == {Q(-1, 2), Q(3, 2)}

InvalidRequests ==
  {BB84Request(-1, 0, <<Zero, Zero, Zero, 0>>),
   E91Request(-1, 0, <<Zero, Zero, Zero>>, "psi_minus"),
   B92Request(-1, 0, <<Zero, Zero, Zero, Zero>>)}
  \cup
  {E91Request(n, seed, <<Zero, Zero, Zero>>, "ghz") :
     n \in 0..MaxN, seed \in {0, NoSeed}}
  \cup
  {BB84Request(n, 0, noise) :
     n \in 1..MaxN,
     noise \in {<<x, Zero, Zero, 0>> : x \in OutOfRange}
              \cup {<<Zero, x, Zero, 0>> : x \in OutOfRange}
              \cup {<<Zero, Zero, x, 0>> : x \in OutOfRange}}
  \cup
  {E91Request(n, 0, noise, "psi_minus") :
     n \in 1..MaxN,
     noise \in {<<x, Zero, Zero>> : x \in OutOfRange}
              \cup {<<Zero, x, Zero>> : x \in OutOfRange}
              \cup {<<Zero, Zero, x>> : x \in OutOfRange}}
  \cup
  {B92Request(n, 0, noise) :
     n \in 1..MaxN,
     noise \in {<<x, Zero, Zero, Zero>> : x \in OutOfRange}
              \cup {<<Zero, x, Zero, Zero>> : x \in OutOfRange}
              \cup {<<Zero, Zero, x, Zero>> : x \in OutOfRange}
              \cup {<<Zero, Zero, Zero, x>> : x \in OutOfRange}}

InitInvalid ==
  /\ rng = ImportedRng
  /\ memo = [s \in SeedIds |-> <<>>]
  /\ replay = FALSE
  /\ pc = [p \in {1} |-> "start"]
  /\ req \in [{1} -> InvalidRequests]
  /\ loc = [p \in {1} |-> Idle]
  /\ res = [p \in {1} |-> NoResult]

NextInvalid ==
  \E p \in DOMAIN pc :
    \/ BB84Seed(p)
    \/ BB84Generate(p)
    \/ BB84Signal(p)
    \/ BB84Finish(p)
    \/ E91Seed(p)
    \/ E91Generate(p)
    \/ E91Pair(p)
    \/ E91Finish(p)
    \/ B92Seed(p)
    \/ B92Generate(p)
    \/ B92Signal(p)
    \/ B92Finish(p)

SpecInvalid == InitInvalid /\ [][NextInvalid]_vars

---------------------------------------------------------------------------
(* One undisturbed E91 run of three pairs: three Bell-test pairs can carry *)
(* |S| beyond 2                                                            *)

ChshPairs == 3   \* pair count of the run

ChshRequests == {E91Request(ChshPairs, 0, <<Zero, Zero, Zero>>, "psi_minus")}

InitChsh ==
  /\ rng = ImportedRng
  /\ memo = [s \in SeedIds |-> <<>>]
  /\ replay = FALSE
  /\ pc = [p \in {1} |-> "start"]
  /\ req \in [{1} -> ChshRequests]
  /\ loc = [p \in {1} |-> Idle]
  /\ res = [p \in {1} |-> NoResult]

NextChsh ==
  \E p \in DOMAIN pc :
    \/ E91Seed(p)
    \/ E91Generate(p)
    \/ E91Pair(p)
    \/ E91Finish(p)

SpecChsh == InitChsh /\ [][NextChsh]_vars

---------------------------------------------------------------------------
(* Two calls in one process, one after the other: call 1 with a seed, call *)
(* 2 without one (seed = None)                                             *)

FirstRequests ==
  {BB84Request(n, seed, <<Zero, Zero, Zero, 0>>) : n \in 0..SeqN, seed \in Seeds}
  \cup
  {E91Request(n, seed, <<Zero, Zero, Zero>>, "psi_minus") : n \in 0..SeqN, seed \in Seeds}
  \cup
  {B92Request(n, seed, <<Zero, Zero, Zero, Zero>>) : n \in 0..SeqN, seed \in Seeds}

UnseededRequests ==
  {E91Request(n, NoSeed, <<Zero, Zero, Zero>>, "psi_minus") : n \in 1..(SeqN + 1)}
  \cup
  {B92Request(n, NoSeed, <<Zero, Zero, Zero, Zero>>) : n \in 1..(SeqN + 1)}

InitCarry ==
  /\ rng = ImportedRng
  /\ memo = [s \in SeedIds |-> <<>>]
  /\ replay = FALSE
  /\ pc = [p \in {1, 2} |-> IF p = 1 THEN "start" ELSE "waiting"]
  /\ \E first \in FirstRequests, second \in UnseededRequests :
       req = [p \in {1, 2} |-> IF p = 1 THEN first ELSE second]
  /\ loc = [p \in {1, 2} |-> Idle]
  /\ res = [p \in {1, 2} |-> NoResult]

NextCarry ==
  \E p \in DOMAIN pc :
    \/ Release(p)
    \/ BB84Seed(p)
    \/ BB84Generate(p)
    \/ BB84Signal(p)
    \/ BB84Finish(p)
    \/ E91Seed(p)
    \/ E91Generate(p)
    \/ E91Pair(p)
    \/ E91Finish(p)
    \/ B92Seed(p)
    \/ B92Generate(p)
    \/ B92Signal(p)
    \/ B92Finish(p)

SpecCarry == InitCarry /\ [][NextCarry]_vars

---------------------------------------------------------------------------
(* Analysis of a result record: analyze_b92_results and analyze_e91_results *)
(* of qiskit/, applied to records with every error count of a sifted key    *)
(* of one of the lengths KeyLengths                                         *)

\* fault variant of B92SecurityAssessment: the thresholds are inclusive
B92SecurityAssessmentInclusive(results) ==
  IF RLe(Q(15, 100), results.qber) THEN <<"WARNING: QBER > 15%">>
  ELSE IF RLe(Q(5, 100), results.qber) THEN <<"CAUTION: Elevated QBER">>
  ELSE <<"QBER within acceptable range">>

\* the lines the branch under "Security Assessment:" appends, by their
\* leading line
B92SecurityAssessment(results) ==
  IF RLt(Q(15, 100), results.qber) THEN <<"WARNING: QBER > 15%">>
  ELSE IF RLt(Q(5, 100), results.qber) THEN <<"CAUTION: Elevated QBER">>
  ELSE <<"QBER within acceptable range">>

E91SecurityAssessment(results) ==
  IF ~results.bell_violated THEN <<"WARNING: Bell inequality NOT violated">>
  ELSE IF RLt(Q(11, 100), results.qber) THEN <<"WARNING: QBER > 11%">>
  ELSE <<"Protocol secure">>

\* the caller holds the record in `results` and passes it by reference
AnalyzeB92(p) ==
  /\ pc[p] = "start"
  /\ req[p].proto = "analyze_b92"
  /\ res' = [res EXCEPT ![p] = Returned(B92SecurityAssessment(loc[p].results))]
  /\ pc' = [pc EXCEPT ![p] = "done"]
  /\ UNCHANGED <<rng, memo, replay, req, loc>>

AnalyzeE91(p) ==
  /\ pc[p] = "start"
  /\ req[p].proto = "analyze_e91"
  /\ res' = [res EXCEPT ![p] = Returned(E91SecurityAssessment(loc[p].results))]
  /\ pc' = [pc EXCEPT ![p] = "done"]
  /\ UNCHANGED <<rng, memo, replay, req, loc>>

\* lengths of the sifted key in the analysed records
KeyLengths == {0, 1, 2, 20, 100}

\* errors / len(sifted key), 0 for an empty key
QberValues ==
  UNION {{IF length = 0 THEN Zero ELSE Q(errors, length) : errors \in 0..length} :
           length \in KeyLengths}

B92Records == {[qber |-> q] : q \in QberValues}
E91Records == {[qber |-> q, bell_violated |-> b] : q \in QberValues, b \in BOOLEAN}

AnalysisRequests ==
  {[proto |-> "analyze_b92", results |-> r] : r \in B92Records}
  \cup {[proto |-> "analyze_e91", results |-> r] : r \in E91Records}

InitAnalysis ==
  /\ rng = ImportedRng
  /\ memo = [s \in SeedIds |-> <<>>]
  /\ replay = FALSE
  /\ pc = [p \in {1} |-> "start"]
  /\ req \in [{1} -> AnalysisRequests]
  /\ loc = [p \in {1} |-> [results |-> req[p].results]]
  /\ res = [p \in {1} |-> NoResult]

NextAnalysis ==
  \E p \in DOMAIN pc :
    \/ AnalyzeB92(p)
    \/ AnalyzeE91(p)

SpecAnalysis == InitAnalysis /\ [][NextAnalysis]_vars

---------------------------------------------------------------------------
(* Backend E91: backend/e91_protocol.py, the two-argument simulator, and   *)
(* the endpoint POST /api/e91/simulate of backend/app.py                   *)

\* fault variant of AntiCorrelated: Bob's bit repeats Alice's
Correlated(alice_bit) == alice_bit

\* bob_bit = 1 - alice_bit
AntiCorrelated(alice_bit) == 1 - alice_bit

SimpleE91Seed(p) ==
  /\ pc[p] = "start"
  /\ req[p].proto = "simple_e91"
  /\ rng' = SeedRng(IF req[p].seed # NoSeed THEN req[p].seed ELSE OsEntropy)
  /\ pc' = [pc EXCEPT ![p] = "simple_generate"]
  /\ UNCHANGED <<memo, replay, req, loc, res>>

SimpleE91Generate(p) ==
  /\ pc[p] = "simple_generate"
  /\ LET n == req[p].n_pairs
     IN IF n < 0
        THEN /\ res' = [res EXCEPT ![p] = Raised(NegativeSize)]
             /\ pc' = [pc EXCEPT ![p] = "done"]
             /\ UNCHANGED <<rng, memo, loc>>
        ELSE \E alice_bases \in AvailArray("int3", 0, n) :
             \E bob_bases \in AvailArray("int3", n, n) :
               /\ Commit(DrawsOf("int3", alice_bases \o bob_bases))
               /\ loc' = [loc EXCEPT ![p] =
                     [alice_bases |-> alice_bases,
                      bob_bases |-> bob_bases,
                      alice_outcomes |-> <<>>,
                      bob_outcomes |-> <<>>,
                      i |-> 0]]
               /\ pc' = [pc EXCEPT ![p] = "simple_loop"]
               /\ UNCHANGED res
  /\ UNCHANGED <<replay, req>>

\* one iteration of `for i in range(n_pairs)`
SimpleE91Pair(p) ==
  /\ pc[p] = "simple_loop"
  /\ loc[p].i < req[p].n_pairs
  /\ \E alice_bit \in Avail("int2", 0) :
       /\ Commit(<<D("int2", alice_bit)>>)
       /\ loc' = [loc EXCEPT
             ![p].i = @ + 1,
             ![p].alice_outcomes = Append(@, alice_bit),
             ![p].bob_outcomes = Append(@, AntiCorrelated(alice_bit))]
  /\ UNCHANGED <<replay, pc, req, res>>

\* the basis pairs <<a_base, b_base>> of the terms E_01, E_02, E_11, E_12
SimpleChshTerms == {<<0, 1>>, <<0, 2>>, <<1, 1>>, <<1, 2>>}

\* calculate_chsh_correlation: mean of a_val * b_val over the events of each
\* term, 0 for a term without events
calculate_chsh_correlation(alice_outcomes, bob_outcomes, alice_bases, bob_bases) ==
  LET chsh_terms == [key \in SimpleChshTerms |->
        LET ks == Ascending({k \in 1..Len(alice_outcomes) :
                               <<alice_bases[k], bob_bases[k]>> = key})
        IN [j \in 1..Len(ks) |->
              Sign(alice_outcomes[ks[j]]) * Sign(bob_outcomes[ks[j]])]]
      E == [key \in SimpleChshTerms |->
              IF chsh_terms[key] # <<>>
              THEN Q(SumSeq(chsh_terms[key]), Len(chsh_terms[key]))
              ELSE Zero]
  IN [chsh_value |-> RAdd(RAdd(RSub(E[<<0, 1>>], E[<<0, 2>>]), E[<<1, 1>>]),
                          E[<<1, 2>>]),
      chsh_expectations |-> E,
      events |-> [key \in SimpleChshTerms |-> Len(chsh_terms[key])]]

SimpleE91Result(a, l) ==
  LET n == a.n_pairs
      chsh == calculate_chsh_correlation(l.alice_outcomes, l.bob_outcomes,
                                         l.alice_bases, l.bob_bases)
      sifted_indices == KeyGenIndices(l, n)
      alice_sifted_key == Pick(l.alice_outcomes, sifted_indices)
      bob_sifted_key == Pick(l.bob_outcomes, sifted_indices)
      bob_corrected_key == [k \in 1..Len(bob_sifted_key) |-> 1 - bob_sifted_key[k]]
  IN [n_pairs |-> n,
      alice_bases |-> l.alice_bases,
      bob_bases |-> l.bob_bases,
      alice_outcomes |-> l.alice_outcomes,
      bob_outcomes |-> l.bob_outcomes,
      alice_sifted_key |-> alice_sifted_key,
      bob_sifted_key |-> bob_sifted_key,
      bob_corrected_key |-> bob_corrected_key,
      qber |-> E91Qber(alice_sifted_key, bob_corrected_key),
      chsh_value |-> chsh.chsh_value,
      bell_violated |-> BellViolated(chsh.chsh_value),
      chsh_expectations |-> chsh.chsh_expectations,
      chsh_events |-> chsh.events]

SimpleE91Finish(p) ==
  /\ pc[p] = "simple_loop"
  /\ loc[p].i = req[p].n_pairs
  /\ res' = [res EXCEPT ![p] = Returned(SimpleE91Result(req[p], loc[p]))]
  /\ pc' = [pc EXCEPT ![p] = "done"]
  /\ UNCHANGED <<rng, memo, replay, req, loc>>

\* sys.path of the server process: `python app.py` puts the script's
\* directory first, app.py appends the qiskit directory
SysPath == <<"backend", "qiskit">>

\* the modules each directory holds
ModulesIn(dir) ==
  CASE dir = "backend" -> {"app", "e91_protocol"}
    [] dir = "qiskit" -> {"main", "e91_protocol", "b92_protocol"}

\* the directory `from <name> import ...` loads the module from: the first
\* one on sys.path that holds it
ImportedFrom(name) ==
  SysPath[CHOOSE k \in 1..Len(SysPath) :
            /\ name \in ModulesIn(SysPath[k])
            /\ \A j \in 1..(k - 1) : name \notin ModulesIn(SysPath[j])]

\* the parameters of e91_protocol as defined in each directory
E91Parameters(dir) ==
  IF dir = "backend"
  THEN {"n_pairs", "seed"}
  ELSE {"n_pairs", "seed", "depolarization", "eavesdropping_rate",
        "dark_count_rate", "bell_state"}

\* the response of the endpoint's `except Exception` clause
E91Failure(error) == [success |-> FALSE, status |-> 500, error |-> error]

\* simulate_e91: the keyword call of the imported e91_protocol; a keyword the
\* callee does not declare raises TypeError, which the handler turns into
\* the failure response.  Otherwise the call runs the simulator with the
\* percentages divided by 100.
SimulateE91(p) ==
  /\ pc[p] = "start"
  /\ req[p].proto = "simulate_e91"
  /\ LET data == req[p].data
         keywords == {"n_pairs", "seed", "depolarization", "eavesdropping_rate",
                      "dark_count_rate", "bell_state"}
     IN IF keywords \subseteq E91Parameters(ImportedFrom("e91_protocol"))
        THEN /\ req' = [req EXCEPT ![p] =
                    E91Request(data.n_pairs, data.seed,
                               <<Q(data.noise_level, 100),
                                 Q(data.eavesdropping_rate, 100),
                                 data.dark_count_rate>>,
                               "psi_minus")]
             /\ UNCHANGED <<pc, res>>
        ELSE /\ res' = [res EXCEPT ![p] =
                    E91Failure("TypeError: unexpected keyword argument")]
             /\ pc' = [pc EXCEPT ![p] = "done"]
             /\ UNCHANGED req
  /\ UNCHANGED <<rng, memo, replay, loc>>

SimpleE91Requests ==
  {[proto |-> "simple_e91", n_pairs |-> n, seed |-> seed] :
     n \in 0..MaxN, seed \in Seeds \cup {NoSeed}}
  \cup {[proto |-> "simple_e91", n_pairs |-> Cardinality(SimpleChshTerms), seed |-> 0]}

\* request bodies with valid values: percentages for the noise level and the
\* eavesdropping rate, a probability for the dark-count rate
SimulateE91Requests ==
  {[proto |-> "simulate_e91",
    data |-> [n_pairs |-> n, seed |-> seed, noise_level |-> noise,
              eavesdropping_rate |-> eve, dark_count_rate |-> dark]] :
     n \in 1..MaxN, seed \in Seeds \cup {NoSeed}, noise \in {0, 50},
     eve \in {0, 50}, dark \in {Zero, Q(1, 100)}}

InitBackend ==
  /\ rng = ImportedRng
  /\ memo = [s \in SeedIds |-> <<>>]
  /\ replay = FALSE
  /\ pc = [p \in {1} |-> "start"]
  /\ req \in [{1} -> SimpleE91Requests \cup SimulateE91Requests]
  /\ loc = [p \in {1} |-> Idle]
  /\ res = [p \in {1} |-> NoResult]

NextBackend ==
  \E p \in DOMAIN pc :
    \/ SimulateE91(p)
    \/ SimpleE91Seed(p)
    \/ SimpleE91Generate(p)
    \/ SimpleE91Pair(p)
    \/ SimpleE91Finish(p)

SpecBackend == InitBackend /\ [][NextBackend]_vars

---------------------------------------------------------------------------
(* Two E91 calls in one process, one after the other, with the same seed   *)
(* and arguments except for bell_state: the singlet first, then one of the *)
(* other three states                                                      *)

BellStatePairs == {<<"psi_minus", b>> : b \in BellStates \ {"psi_minus"}}

InitBellStates ==
  /\ rng = ImportedRng
  /\ memo = [s \in SeedIds |-> <<>>]
  /\ replay = TRUE
  /\ pc = [p \in {1, 2} |-> IF p = 1 THEN "start" ELSE "waiting"]
  /\ \E n \in 0..SeqN, b \in BellStatePairs :
       req = [p \in {1, 2} |-> E91Request(n, 0, <<Half, Half, Half>>, b[p])]
  /\ loc = [p \in {1, 2} |-> Idle]
  /\ res = [p \in {1, 2} |-> NoResult]

NextBellStates ==
  \E p \in DOMAIN pc :
    \/ Release(p)
    \/ E91Seed(p)
    \/ E91Generate(p)
    \/ E91Pair(p)
    \/ E91Finish(p)

SpecBellStates == InitBellStates /\ [][NextBellStates]_vars

---------------------------------------------------------------------------
(* Properties *)

Completed(p) == pc[p] = "done" /\ res[p].success

BB84Noiseless(a) ==
  /\ a.depolarization.n = 0
  /\ a.phase_damping.n = 0
  /\ a.amplitude_damping.n = 0
  /\ a.fiber_length = 0

E91Noiseless(a) ==
  /\ a.depolarization.n = 0
  /\ a.eavesdropping_rate.n = 0
  /\ a.dark_count_rate.n = 0
  /\ a.bell_state = "psi_minus"

\* C1: determinism.  When the same request with a non-null seed is issued
\* twice, the second call starts from the re-seeded stream and returns the
\* same sequences and the same statistics as the first, for each of the
\* BB84 simulation, the E91 simulator and the B92 simulator.
C1_Determinism ==
  (req[1] = req[2] /\ req[2].seed # NoSeed) =>
    /\ pc[2] \notin {"waiting", "start"} => rng.seed = req[2].seed
    /\ pc[2] = "done" => (res[2] = res[1] /\ loc[2] = loc[1])

C1_Witness ==
  /\ pc[2] = "done"
  /\ res[2].success
  /\ req[1] = req[2]
  /\ req[2].seed # NoSeed
  /\ rng.pos > 2

\* C2: isolation of concurrent runs.  A run given an explicit seed returns,
\* when its steps interleave with those of another run, exactly the output
\* it returns when executed alone (call 1 is call 2's request run alone).
C2_ConcurrentIsolation ==
  (pc[2] = "done" /\ req[2].seed # NoSeed) => res[2] = res[1]

\* C3: BB84 on a noiseless channel (depolarization, phase damping, amplitude
\* damping and fiber length all 0): no signal is lost, Bob's bit equals
\* Alice's bit wherever the bases match, alice_key = bob_key and QBER = 0.
C3_BB84NoiselessAgreement ==
  \A p \in DOMAIN pc :
    (req[p].proto = "bb84" /\ BB84Noiseless(req[p])) =>
      /\ pc[p] = "bb84_loop" =>
           /\ loc[p].detected_indices = [j \in 1..loc[p].i |-> j - 1]
           /\ \A j \in 1..loc[p].i :
                loc[p].alice_bases[j] = loc[p].bob_bases[j]
                  => loc[p].bob_results[j] = loc[p].alice_bits[j]
      /\ pc[p] = "done" =>
           /\ res[p].success
           /\ res[p].data.detected_photons = req[p].n_bits
           /\ res[p].data.alice_key = res[p].data.bob_key
           /\ res[p].data.keys_match
           /\ res[p].data.qber.n = 0

C3_Witness ==
  \E p \in DOMAIN pc :
    /\ Completed(p)
    /\ req[p].proto = "bb84"
    /\ BB84Noiseless(req[p])
    /\ res[p].data.key_length >= 1
    /\ res[p].data.key_length < req[p].n_bits

\* C4: BB84 sifting.  Signal i contributes to the sifted keys iff it was
\* detected and alice_bases[i] = bob_bases[i]; both keys have that many
\* entries, and their k-th entries are Alice's bit and Bob's measured value
\* of the same signal (Bob's results being stored compacted over the
\* detected signals).
C4_BB84Sifting ==
  \A p \in DOMAIN pc :
    (Completed(p) /\ req[p].proto = "bb84") =>
      LET l == loc[p]
          d == res[p].data
          slots == 1..Len(l.detected_indices)
          detected == {l.detected_indices[j] : j \in slots}
          sifted == Ascending({i \in 0..(req[p].n_bits - 1) :
                                 /\ i \in detected
                                 /\ d.alice_bases[i + 1] = d.bob_bases[i + 1]})
          slot(i) == CHOOSE j \in slots : l.detected_indices[j] = i
      IN /\ Len(d.bob_results) = Len(l.detected_indices)
         /\ Len(d.alice_key) = Len(sifted)
         /\ Len(d.bob_key) = Len(sifted)
         /\ \A k \in 1..Len(sifted) :
              /\ d.alice_key[k] = d.alice_bits[sifted[k] + 1]
              /\ d.bob_key[k] = d.bob_results[slot(sifted[k])]

\* a lost signal precedes a detected one whose bases match
C4_Witness ==
  \E p \in DOMAIN pc :
    /\ Completed(p)
    /\ req[p].proto = "bb84"
    /\ res[p].data.key_length >= 1
    /\ loc[p].detected_indices # <<>>
    /\ loc[p].detected_indices[1] > 0

\* C5: the sifted-key length never exceeds the signal / pair count; it is 0
\* when photon loss is forced to 1 (BB84 combined damping, B92 channel
\* loss) and 0 when no index has matching bases (BB84, E91).
C5_SiftedLengthBound ==
  \A p \in DOMAIN pc :
    Completed(p) =>
      LET a == req[p]
          d == res[p].data
      IN CASE a.proto = "bb84" ->
                /\ Len(d.alice_key) <= a.n_bits
                /\ Len(d.bob_key) <= a.n_bits
                /\ RLe(One, loc[p].combined_amplitude_damping) => Len(d.alice_key) = 0
                /\ (\A i \in 1..a.n_bits : d.alice_bases[i] # d.bob_bases[i])
                     => (Len(d.alice_key) = 0 /\ Len(d.bob_key) = 0)
           [] a.proto = "e91" ->
                /\ Len(d.alice_sifted_key) <= a.n_pairs
                /\ Len(d.bob_corrected_key) <= a.n_pairs
                /\ (\A i \in 1..a.n_pairs : d.alice_bases[i] # d.bob_bases[i])
                     => (Len(d.alice_sifted_key) = 0 /\ Len(d.bob_corrected_key) = 0)
           [] a.proto = "b92" ->
                /\ Len(d.sifted_key_alice) <= a.n_signals
                /\ Len(d.sifted_key_bob) <= a.n_signals
                /\ RLe(One, a.channel_loss) => Len(d.sifted_key_alice) = 0

\* every signal is detected and no signal has matching bases
C5_Witness ==
  \E p \in DOMAIN pc :
    /\ Completed(p)
    /\ req[p].proto = "bb84"
    /\ req[p].n_bits >= 2
    /\ res[p].data.detected_photons = req[p].n_bits
    /\ \A i \in 1..req[p].n_bits : res[p].data.alice_bases[i] # res[p].data.bob_bases[i]

\* C6: a degenerate-empty run (zero signals / pairs, or every photon lost)
\* completes normally and reports QBER = 0 and key rate = 0.
C6_DegenerateRunsComplete ==
  \A p \in DOMAIN pc :
    LET a == req[p]
        empty == CASE a.proto = "bb84" ->
                        a.n_bits = 0 \/ loc[p].detected_indices = <<>>
                   [] a.proto = "e91" -> a.n_pairs = 0
                   [] a.proto = "b92" ->
                        a.n_signals = 0 \/ RLe(One, a.channel_loss)
    IN (pc[p] = "done" /\ empty) =>
         /\ res[p].success
         /\ res[p].data.qber.n = 0
         /\ a.proto = "b92" => res[p].data.key_rate.n = 0

\* C7: for every completed run the reported QBER lies in [0,1] and the key
\* rate (sifted length / total signals) lies in [0,1], whatever the
\* probability parameters are, the extremes 0 and 1 included.
C7_RatesInUnitInterval ==
  \A p \in DOMAIN pc :
    Completed(p) =>
      LET a == req[p]
          d == res[p].data
      IN /\ InUnit(d.qber)
         /\ CASE a.proto = "bb84" ->
                   a.n_bits > 0 => InUnit(Q(d.key_length, a.n_bits))
              [] a.proto = "e91" ->
                   a.n_pairs > 0 => InUnit(Q(d.key_gen_count, a.n_pairs))
              [] a.proto = "b92" ->
                   InUnit(d.key_rate) /\ d.key_rate = Q(Len(d.sifted_key_alice), a.n_signals)

\* a B92 run whose sifted key contains an error
C7_Witness ==
  \E p \in DOMAIN pc :
    /\ Completed(p)
    /\ req[p].proto = "b92"
    /\ res[p].data.qber.n >= 1
    /\ res[p].data.key_rate.n >= 1

\* C8: E91 partition.  The Bell-test index set (bases differ) and the
\* key-generation index set (bases equal) are disjoint, their union is
\* {0, ..., n_pairs - 1}, and bell_test_count + key_gen_count = n_pairs.
C8_E91Partition ==
  \A p \in DOMAIN pc :
    (Completed(p) /\ req[p].proto = "e91") =>
      LET d == res[p].data
          bell == {d.bell_test_indices[k] : k \in 1..Len(d.bell_test_indices)}
          key == {d.key_gen_indices[k] : k \in 1..Len(d.key_gen_indices)}
      IN /\ bell \cap key = {}
         /\ bell \cup key = 0..(req[p].n_pairs - 1)
         /\ d.bell_test_count = Cardinality(bell)
         /\ d.key_gen_count = Cardinality(key)
         /\ d.bell_test_count + d.key_gen_count = req[p].n_pairs
         /\ \A i \in key : d.alice_bases[i + 1] = d.bob_bases[i + 1]
         /\ \A i \in bell : d.alice_bases[i + 1] # d.bob_bases[i + 1]

\* both subsets are populated, one pair has the larger basis on Alice's side
C8_Witness ==
  \E p \in DOMAIN pc :
    /\ Completed(p)
    /\ req[p].proto = "e91"
    /\ res[p].data.key_gen_count >= 1
    /\ \E i \in 1..req[p].n_pairs : res[p].data.alice_bases[i] > res[p].data.bob_bases[i]

\* C9: E91 noiseless Bell test.  With no depolarization, eavesdropping or
\* dark counts on the singlet state, a run in which all four CHSH basis
\* pairs have events reports a Bell violation (|S| > 2).
C9_NoiselessBellViolation ==
  \A p \in DOMAIN pc :
    (/\ Completed(p)
     /\ req[p].proto = "e91"
     /\ E91Noiseless(req[p])
     /\ \A t \in ChshTerms :
          \E i \in 1..req[p].n_pairs :
            <<res[p].data.alice_bases[i], res[p].data.bob_bases[i]>> = t)
      => res[p].data.bell_violated

\* C10: E91 noiseless key agreement.  With no depolarization, eavesdropping
\* or dark counts on the singlet state every pair measured in matching
\* bases yields opposite bits, so bob_corrected_key = alice_sifted_key and
\* QBER = 0.
C10_E91NoiselessKeyAgreement ==
  \A p \in DOMAIN pc :
    (req[p].proto = "e91" /\ E91Noiseless(req[p])) =>
      /\ pc[p] \in {"e91_loop", "done"} =>
           \A k \in 1..Len(loc[p].alice_outcomes) :
             loc[p].alice_bases[k] = loc[p].bob_bases[k]
               => loc[p].bob_outcomes[k] = 1 - loc[p].alice_outcomes[k]
      /\ pc[p] = "done" =>
           /\ res[p].success
           /\ res[p].data.bob_corrected_key = res[p].data.alice_sifted_key
           /\ res[p].data.qber.n = 0

C10_Witness ==
  \E p \in DOMAIN pc :
    /\ Completed(p)
    /\ req[p].proto = "e91"
    /\ E91Noiseless(req[p])
    /\ res[p].data.key_gen_count >= 2

B92NoNoise(a) ==
  /\ a.depolarization.n = 0
  /\ a.eavesdropping_rate.n = 0
  /\ a.dark_count_rate.n = 0

\* C11: B92 ideal key rate.  With channel loss, depolarization,
\* eavesdropping and dark counts all 0, the probability that Bob's
\* measurement of a signal is conclusive (prob_0 + prob_1 of measure_b92
\* for the state Alice prepared, '0' or '+') is 1/4.
C11_B92IdealConclusiveQuarter ==
  \A p \in DOMAIN pc :
    (/\ req[p].proto = "b92"
     /\ B92NoNoise(req[p])
     /\ req[p].channel_loss.n = 0
     /\ pc[p] \in {"b92_loop", "done"}) =>
      \A k \in 1..Len(loc[p].conclusive_flags) :
        LET probs == B92Probabilities(loc[p].alice_states[k], req[p].dark_count_rate, 0, 0)
            conclusive == RAdd(probs.prob_0, probs.prob_1)
        IN RLe(conclusive, Q(1, 4)) /\ RLe(Q(1, 4), conclusive)

Count(a) ==
  CASE a.proto = "bb84" -> a.n_bits
    [] a.proto = "e91" -> a.n_pairs
    [] a.proto = "b92" -> a.n_signals

Probabilities(a) ==
  CASE a.proto = "bb84" -> {a.depolarization, a.phase_damping, a.amplitude_damping}
    [] a.proto = "e91" -> {a.depolarization, a.eavesdropping_rate, a.dark_count_rate}
    [] a.proto = "b92" -> {a.channel_loss, a.depolarization, a.eavesdropping_rate,
                           a.dark_count_rate}

InvalidParameters(a) == Count(a) < 0 \/ \E x \in Probabilities(a) : ~InUnit(x)

\* C13: fail-fast validation.  A run given a negative count or a
\* probability outside [0,1] ends in failure, having drawn no random value
\* and produced no simulation state.
C13_FailFastValidation ==
  \A p \in DOMAIN pc :
    (InvalidParameters(req[p]) /\ pc[p] = "done") =>
      /\ ~res[p].success
      /\ loc[p] = Idle
      /\ rng.pos = 0

\* C14: E91 CHSH computation.  Each E(x,y) is the mean of the products of
\* the +1/-1 encoded outcomes (bit 0 -> +1, bit 1 -> -1) over the pairs
\* whose bases differ and are exactly (x,y), 0 when there are none, and
\* lies in [-1,1]; S = E(0,45) - E(0,90) + E(90,45) + E(90,0); and
\* bell_violated is true exactly when |S| > 2.
C14_ChshComputation ==
  \A p \in DOMAIN pc :
    (Completed(p) /\ req[p].proto = "e91") =>
      LET d == res[p].data
          events(x, y) == {i \in 1..req[p].n_pairs :
                            /\ d.alice_bases[i] # d.bob_bases[i]
                            /\ d.alice_bases[i] = x
                            /\ d.bob_bases[i] = y}
          equal(x, y) == {i \in events(x, y) : d.alice_outcomes[i] = d.bob_outcomes[i]}
          \* products: +1 for equal outcomes, -1 for opposite outcomes
          total(x, y) == 2 * Cardinality(equal(x, y)) - Cardinality(events(x, y))
          E(x, y) == d.correlations[<<x, y>>]
          s_value == d.chsh_s_value
          \* the four means over a common denominator
          expected == RAdd(RAdd(RSub(E(0, 2), E(0, 1)), E(1, 2)), E(1, 0))
      IN /\ \A x \in 0..2, y \in 0..2 :
              /\ E(x, y).d > 0
              /\ IF events(x, y) = {}
                 THEN E(x, y).n = 0
                 ELSE E(x, y).n * Cardinality(events(x, y)) = total(x, y) * E(x, y).d
              /\ RLe(Q(-1, 1), E(x, y)) /\ RLe(E(x, y), One)
         /\ s_value.d > 0
         /\ s_value.n * expected.d = expected.n * s_value.d
         /\ d.bell_violated <=> (s_value.n > 2 * s_value.d \/ -s_value.n > 2 * s_value.d)

\* three Bell-test pairs whose terms add up beyond the classical bound
C14_Witness ==
  \E p \in DOMAIN pc :
    /\ Completed(p)
    /\ req[p].proto = "e91"
    /\ res[p].data.bell_violated
    /\ res[p].data.bell_test_count = ChshPairs

\* C15: E91 depolarization.  The probability that a pair gives equal bits
\* mixes the Bell correlation with white noise in proportion to the
\* depolarization, p_same = (1 - p) * sin^2(angle difference) + p / 2, so
\* that a matching-basis pair can give equal bits once p > 0 and, at p = 1,
\* equal and opposite bits are both possible for every basis pair.
C15_E91DepolarizationMixes ==
  \A p \in DOMAIN pc :
    (req[p].proto = "e91" /\ pc[p] = "e91_loop") =>
      \A k \in 1..loc[p].i :
        LET dep == req[p].depolarization
            x == loc[p].alice_bases[k]
            y == loc[p].bob_bases[k]
            p_same == PSame(loc[p].rho_noisy, x, y)
            mixed == RAdd(RMul(RSub(One, dep), SinSq(measurement_angles(x) - measurement_angles(y))),
                          RMul(dep, Half))
        IN /\ RLe(p_same, mixed) /\ RLe(mixed, p_same)
           /\ (x = y /\ RLt(Zero, dep)) => RLt(Zero, p_same)
           /\ RLe(One, dep) => (RLt(Zero, p_same) /\ RLt(p_same, One))

\* C16: B92 sifting keeps exactly the conclusive events.  The conclusive
\* and inconclusive index lists are disjoint and cover 0 .. n_signals - 1;
\* a signal dropped by channel loss (the only draw of its iteration is the
\* loss check) is recorded as -1 and is not conclusive, whatever the dark
\* count rate; both sifted keys have conclusive_count entries, the k-th of
\* each taken from the k-th conclusive signal, and Bob's are 0 or 1.
C16_B92Sifting ==
  \A p \in DOMAIN pc :
    req[p].proto = "b92" =>
      \* n_signals draws for Alice's bits, then one per dropped signal
      /\ (pc[p] = "b92_loop" /\ rng.pos = req[p].n_signals + loc[p].i) =>
           \A k \in 1..loc[p].i :
             loc[p].bob_raw_results[k] = -1 /\ ~loc[p].conclusive_flags[k]
      /\ Completed(p) =>
           LET d == res[p].data
               n == req[p].n_signals
               conclusive == {d.conclusive_indices[k] : k \in 1..Len(d.conclusive_indices)}
               inconclusive == {d.inconclusive_indices[k] : k \in 1..Len(d.inconclusive_indices)}
           IN /\ conclusive \cap inconclusive = {}
              /\ conclusive \cup inconclusive = 0..(n - 1)
              /\ d.conclusive_count = Cardinality(conclusive)
              /\ d.inconclusive_count = Cardinality(inconclusive)
              /\ d.conclusive_count + d.inconclusive_count = n
              /\ \A i \in 0..(n - 1) :
                   /\ i \in conclusive <=> d.bob_measurements[i + 1][2]
                   /\ d.bob_measurements[i + 1][1] = -1 => i \in inconclusive
                   /\ d.bob_measurements[i + 1][1] = d.bob_raw_results[i + 1]
              /\ RLe(One, req[p].channel_loss) => conclusive = {}
              /\ Len(d.sifted_key_alice) = d.conclusive_count
              /\ Len(d.sifted_key_bob) = d.conclusive_count
              /\ \A k \in 1..d.conclusive_count :
                   /\ k > 1 => d.conclusive_indices[k - 1] < d.conclusive_indices[k]
                   /\ d.sifted_key_alice[k] = d.alice_bits[d.conclusive_indices[k] + 1]
                   /\ d.sifted_key_bob[k] = d.bob_raw_results[d.conclusive_indices[k] + 1]
                   /\ d.sifted_key_bob[k] \in {0, 1}

\* with dark counts on, the first signal is dropped and the second one is
\* conclusive
C16_Witness ==
  \E p \in DOMAIN pc :
    /\ Completed(p)
    /\ req[p].proto = "b92"
    /\ RLt(Zero, req[p].dark_count_rate)
    /\ RLt(Zero, req[p].channel_loss)
    /\ res[p].data.conclusive_indices = <<1>>
    /\ res[p].data.inconclusive_indices = <<0>>

\* C17: run-scoped random state.  A completed run leaves no generator
\* state behind for a later run: the values a run started without a seed
\* has drawn do not come from the stream its predecessor seeded, continued
\* from where the predecessor stopped.
C17_RunScopedRandomState ==
  (/\ pc[1] = "done"
   /\ req[1].seed # NoSeed
   /\ req[2].seed = NoSeed
   /\ pc[2] = "done"
   /\ loc[2].i >= 1) =>
     rng.seed # req[1].seed

\* C18: BB84 photon loss.  A signal that fails the photon-loss check
\* leaves no entry in bob_results (no error, zero or placeholder) and none
\* in the sifted keys: bob_results has one entry, 0 or 1, per detected
\* signal, detected_photons is their number, and the iteration of a lost
\* signal makes no draw beyond the loss check (one draw for a lost signal;
\* two, plus one in the diagonal basis, plus one when the bases differ, for
\* a detected one).
C18_BB84PhotonLoss ==
  \A p \in DOMAIN pc :
    (req[p].proto = "bb84" /\ pc[p] \in {"bb84_loop", "done"} /\ req[p].n_bits >= 0) =>
      LET l == loc[p]
          n == req[p].n_bits
          slots == 1..Len(l.detected_indices)
          detected == {l.detected_indices[j] : j \in slots}
          lost == (0..(l.i - 1)) \ detected
          draws(i) == 2 + (IF l.alice_bases[i + 1] = 1 THEN 1 ELSE 0)
                        + (IF l.alice_bases[i + 1] # l.bob_bases[i + 1] THEN 1 ELSE 0)
          DrawsOver[S \in SUBSET (0..(n - 1))] ==
            IF S = {} THEN 0
            ELSE LET i == CHOOSE x \in S : TRUE
                 IN draws(i) + DrawsOver[S \ {i}]
      IN /\ detected \subseteq 0..(l.i - 1)
         /\ \A j \in slots : j > 1 => l.detected_indices[j - 1] < l.detected_indices[j]
         /\ Len(l.bob_results) = Len(l.detected_indices)
         /\ \A j \in slots : l.bob_results[j] \in {0, 1}
         /\ RLe(One, l.combined_amplitude_damping) => detected = {}
         /\ l.combined_amplitude_damping.n <= 0 => lost = {}
         /\ rng.pos = 3 * n + Cardinality(lost) + DrawsOver[detected]
         /\ Completed(p) =>
              LET d == res[p].data
              IN /\ d.bob_results = l.bob_results
                 /\ d.detected_photons = Len(d.bob_results)
                 /\ d.detected_photons = n - Cardinality(lost)
                 /\ d.key_length <= d.detected_photons
                 /\ Len(d.bob_key) = d.key_length
                 /\ d.key_length =
                      Cardinality({i \in detected : d.alice_bases[i + 1] = d.bob_bases[i + 1]})

\* the first signal is lost although its bases match; the second one is
\* detected in mismatched bases
C18_Witness ==
  \E p \in DOMAIN pc :
    /\ Completed(p)
    /\ req[p].proto = "bb84"
    /\ req[p].n_bits = 2
    /\ loc[p].detected_indices = <<1>>
    /\ res[p].data.alice_bases[1] = res[p].data.bob_bases[1]
    /\ res[p].data.alice_bases[2] # res[p].data.bob_bases[2]
    /\ res[p].data.key_length = 0

\* C19: BB84 basis-dependent decoherence.  With depolarization = 0, a
\* detected signal that Alice sent in basis 0 and Bob measured in basis 0
\* gives Bob exactly Alice's bit, whatever phase_damping is; with
\* phase_damping = 0 as well the same holds in basis 1, so only phase
\* damping in the diagonal basis can flip a matching-basis bit.
C19_BB84PhaseDampingDiagonalOnly ==
  \A p \in DOMAIN pc :
    (/\ req[p].proto = "bb84"
     /\ pc[p] \in {"bb84_loop", "done"}
     /\ req[p].depolarization.n = 0) =>
      LET l == loc[p]
      IN \A j \in 1..Len(l.detected_indices) :
           LET i == l.detected_indices[j]
           IN (/\ l.alice_bases[i + 1] = l.bob_bases[i + 1]
               /\ l.alice_bases[i + 1] = 0 \/ req[p].phase_damping.n = 0)
                => l.bob_results[j] = l.alice_bits[i + 1]

\* with depolarization 0 and phase damping on, a detected basis-0 signal
\* arrives intact and a detected basis-1 signal is flipped, both in
\* matching bases
C19_Witness ==
  \E p \in DOMAIN pc :
    /\ Completed(p)
    /\ req[p].proto = "bb84"
    /\ req[p].depolarization.n = 0
    /\ RLt(Zero, req[p].phase_damping)
    /\ loc[p].detected_indices = <<0, 1>>
    /\ res[p].data.alice_bases = <<0, 1>>
    /\ res[p].data.bob_bases = <<0, 1>>
    /\ res[p].data.bob_results[1] = res[p].data.alice_bits[1]
    /\ res[p].data.bob_results[2] # res[p].data.alice_bits[2]

\* C20: E91 QBER over the key-generation subset.  alice_sifted_key and
\* bob_sifted_key are the outcomes of exactly the equal-basis pairs in
\* index order, bob_corrected_key is the bitwise complement of
\* bob_sifted_key, and QBER is the number of equal-basis pairs whose
\* corrected bit differs from Alice's (that is, whose outcomes are equal)
\* divided by key_gen_count, or 0 when there is no such pair; outcomes of
\* Bell-test pairs do not enter.
C20_E91QberKeyGenOnly ==
  \A p \in DOMAIN pc :
    (Completed(p) /\ req[p].proto = "e91") =>
      LET d == res[p].data
          n == req[p].n_pairs
          equal_basis == {i \in 1..n : d.alice_bases[i] = d.bob_bases[i]}
          \* number of equal-basis pairs at positions below i
          rank(i) == Cardinality({j \in equal_basis : j < i})
          wrong == {i \in equal_basis : d.alice_outcomes[i] # 1 - d.bob_outcomes[i]}
      IN /\ d.key_gen_count = Cardinality(equal_basis)
         /\ Len(d.alice_sifted_key) = d.key_gen_count
         /\ Len(d.bob_sifted_key) = d.key_gen_count
         /\ Len(d.bob_corrected_key) = d.key_gen_count
         /\ \A i \in equal_basis :
              /\ d.alice_sifted_key[rank(i) + 1] = d.alice_outcomes[i]
              /\ d.bob_sifted_key[rank(i) + 1] = d.bob_outcomes[i]
              /\ d.bob_corrected_key[rank(i) + 1] = 1 - d.bob_outcomes[i]
         /\ d.qber.d > 0
         /\ IF d.key_gen_count = 0
            THEN d.qber.n = 0
            ELSE d.qber.n * d.key_gen_count = Cardinality(wrong) * d.qber.d

\* a Bell-test pair precedes an equal-basis pair that is in error
C20_Witness ==
  \E p \in DOMAIN pc :
    /\ Completed(p)
    /\ req[p].proto = "e91"
    /\ res[p].data.bell_test_indices = <<0>>
    /\ res[p].data.key_gen_indices = <<1>>
    /\ res[p].data.qber.n >= 1

\* C21: E91 intercept-resend.  When the eavesdropping check fires
\* (eavesdropping_rate = 1: always), the pair about to be measured can
\* yield each of the four outcome combinations whatever its bases are (a
\* dark count rate of 0 leaving the bits as drawn); with
\* eavesdropping_rate = 0 the branch is never taken, so that without dark
\* counts a matching-basis pair always yields opposite bits.
C21_E91InterceptResend ==
  \A p \in DOMAIN pc :
    (req[p].proto = "e91" /\ pc[p] = "e91_loop" /\ req[p].dark_count_rate.n = 0) =>
      /\ (RLe(One, req[p].eavesdropping_rate) /\ loc[p].i < req[p].n_pairs) =>
           \A a \in 0..1, b \in 0..1 :
             ENABLED (/\ E91Pair(p)
                      /\ loc'[p].alice_outcomes = Append(loc[p].alice_outcomes, a)
                      /\ loc'[p].bob_outcomes = Append(loc[p].bob_outcomes, b))
      /\ req[p].eavesdropping_rate.n = 0 =>
           \A k \in 1..loc[p].i :
             loc[p].alice_bases[k] = loc[p].bob_bases[k]
               => loc[p].bob_outcomes[k] = 1 - loc[p].alice_outcomes[k]

\* every pair intercepted: a matching-basis pair comes out with equal bits
C21_Witness ==
  \E p \in DOMAIN pc :
    /\ Completed(p)
    /\ req[p].proto = "e91"
    /\ RLe(One, req[p].eavesdropping_rate)
    /\ req[p].dark_count_rate.n = 0
    /\ res[p].data.key_gen_count >= 1
    /\ res[p].data.qber.n >= 1


SameValue(a, b) == a.n * b.d = b.n * a.d

\* (prob_0, prob_1, prob_inconclusive) of measure_b92 equal
\* (p0 + x, p1 + y, p_inconclusive) / (p0 + p1 + p_inconclusive + x + y)
DarkCountDistribution(probs, state, x, y) ==
  LET p0 == BornProb0(state)
      p1 == BornProb1(state)
      p_inconclusive == RSub(RSub(One, p0), p1)
      sum == RAdd(RAdd(RAdd(p0, p1), p_inconclusive), RAdd(x, y))
  IN /\ SameValue(RMul(probs.prob_0, sum), RAdd(p0, x))
     /\ SameValue(RMul(probs.prob_1, sum), RAdd(p1, y))
     /\ SameValue(RMul(probs.prob_inconclusive, sum), p_inconclusive)

\* the signals Bob measured so far in the state Alice prepared
MeasuredAsSent(p) ==
  /\ req[p].proto = "b92" /\ pc[p] = "b92_loop"
  /\ req[p].channel_loss.n = 0
  /\ req[p].depolarization.n = 0
  /\ req[p].eavesdropping_rate.n = 0

C24_SecurityVerdict ==
  \A p \in DOMAIN pc :
    pc[p] = "done" =>
      LET r == req[p].results
          \* the QBER in percent exceeds t
          Above(t) == 100 * r.qber.n > t * r.qber.d
      IN /\ res[p].success
         /\ Len(res[p].data) = 1
         /\ loc[p].results = r
         /\ req[p].proto = "analyze_b92" =>
              res[p].data[1] =
                CASE Above(15) -> "WARNING: QBER > 15%"
                  [] ~Above(15) /\ Above(5) -> "CAUTION: Elevated QBER"
                  [] ~Above(5) -> "QBER within acceptable range"
         /\ req[p].proto = "analyze_e91" =>
              res[p].data[1] =
                CASE ~r.bell_violated -> "WARNING: Bell inequality NOT violated"
                  [] r.bell_violated /\ Above(11) -> "WARNING: QBER > 11%"
                  [] r.bell_violated /\ ~Above(11) -> "Protocol secure"

\* a B92 record with 3 errors in 20 sifted bits was given the caution
C24_Witness ==
  \E p \in DOMAIN pc :
    /\ pc[p] = "done"
    /\ req[p].proto = "analyze_b92"
    /\ req[p].results.qber = Q(3, 20)
    /\ res[p].data = <<"CAUTION: Elevated QBER">>

\* C25: no partial failure.  The parameterized E91 simulator called with a
\* bell_state outside {psi_minus, psi_plus, phi_minus, phi_plus} raises
\* 'Unknown state type', returns no result and has changed no state when it
\* fails: the random stream is exactly as it was before the call.
C25_NoPartialFailure ==
  \A p \in DOMAIN pc :
    (/\ req[p].proto = "e91"
     /\ req[p].bell_state \notin BellStates
     /\ pc[p] = "done") =>
      /\ ~res[p].success
      /\ res[p].error = "ValueError: Unknown state type"
      /\ loc[p] = Idle
      /\ rng = ImportedRng
      /\ memo = [s \in SeedIds |-> <<>>]

\* C26: POST /api/e91/simulate with valid parameters runs the parameterized
\* E91 simulator and answers success = true with data holding
\* bell_test_count, key_gen_count and chsh_s_value; it does not end in the
\* failure response.
C26_E91EndpointSucceeds ==
  \A p \in DOMAIN pc :
    (req[p].proto = "simulate_e91" /\ pc[p] = "done") =>
      /\ res[p].success
      /\ {"bell_test_count", "key_gen_count", "chsh_s_value"} \subseteq DOMAIN res[p].data

C27_B92ProbabilitiesValid ==
  \A p \in DOMAIN pc :
    (/\ req[p].proto = "b92" /\ pc[p] = "b92_loop"
     /\ InUnit(req[p].dark_count_rate)
     /\ loc[p].i >= 1) =>
      \A v0 \in 0..(Levels - 1), v1 \in 0..(Levels - 1) :
        LET probs == B92Probabilities(loc[p].prepared_state,
                                      req[p].dark_count_rate, v0, v1)
        IN /\ InUnit(probs.prob_0)
           /\ InUnit(probs.prob_1)
           /\ InUnit(probs.prob_inconclusive)
           /\ SameValue(RAdd(RAdd(probs.prob_0, probs.prob_1),
                             probs.prob_inconclusive), One)

====
